---- MODULE Spec2Model ----
(***************************************************************************)
(* Console support agent (src/app.py): API-key check at import, the three  *)
(* function tools with their is_enabled predicates, the agent definitions  *)
(* and the session loop of main().  Python strings are sequences of        *)
(* one-character strings, so that strip(), lower(), == and f-string        *)
(* concatenation are computed character by character.                      *)
(***************************************************************************)
EXTENDS Naturals, Sequences, FiniteSets

VARIABLES
    start_env,      \* OPENAI_API_KEY in the environment the process is started with
    dotenv_file,    \* OPENAI_API_KEY entry of the .env file read by load_dotenv()
    environ,        \* OPENAI_API_KEY in os.environ
    openai_api_key, \* module global openai_api_key
    agents,         \* Agent objects constructed by main(), by name
    pc,             \* position of the process
    prompt,         \* the last prompt shown by input()
    line,           \* the last line returned by input()
    user_input,     \* local user_input of main()
    issue_type,     \* local issue_type of main()
    premium_input,  \* local premium_input of main()
    is_premium,     \* local is_premium of main()
    user_data,      \* local user_data of main(): the context of the turn
    built,          \* contexts constructed since the turn's "User Input" read
    runs,           \* runs started since the turn's "User Input" read
    inflight,       \* runs started whose event stream is not exhausted
    stream,         \* state of result.stream(): "idle", "open" or "exhausted"
    current_agent,  \* the agent the run is at
    call,           \* the runtime's last predicate evaluation or tool call
    event           \* what the loop body printed for the last stream event

vars == <<start_env, dotenv_file, environ, openai_api_key, agents, pc, prompt,
          line, user_input, issue_type, premium_input, is_premium, user_data,
          built, runs, inflight, stream, current_agent, call, event>>

---------------------------------------------------------------------------
(* Bounds of the model *)

\* longest context name, over NameChars, besides "Areeba"
MaxNameLen == 2
\* longest garbled issue type, over IssueChars, besides the near misses
MaxIssueLen == 2
\* longest answer to the premium prompt, over AnswerChars
MaxAnsLen == 3
\* most blanks put on either side of a word typed at a prompt
MaxPad == 1
\* most events one run's stream delivers
MaxEvents == 2

---------------------------------------------------------------------------
(* String literals of src/app.py *)

REFUND == <<"r", "e", "f", "u", "n", "d">>
TECHNICAL == <<"t", "e", "c", "h", "n", "i", "c", "a", "l">>
BILLING == <<"b", "i", "l", "l", "i", "n", "g">>
EXIT == <<"e", "x", "i", "t">>
QUIT == <<"q", "u", "i", "t">>
YES == <<"y", "e", "s">>
Y == <<"y">>
AREEBA == <<"A", "r", "e", "e", "b", "a">>
REFUND_OK == <<"R", "e", "f", "u", "n", "d", " ", "p", "r", "o", "c", "e", "s", "s", "e", "d", " ", "s", "u", "c", "c", "e", "s", "s", "f", "u", "l", "l", "y", " ", "f", "o", "r", " ">>
REFUND_NO == <<",", " ", "y", "o", "u", " ", "n", "e", "e", "d", " ", "a", " ", "p", "r", "e", "m", "i", "u", "m", " ", "s", "u", "b", "s", "c", "r", "i", "p", "t", "i", "o", "n", " ", "t", "o", " ", "r", "e", "q", "u", "e", "s", "t", " ", "a", " ", "r", "e", "f", "u", "n", "d", ".">>
RESTARTED == <<"T", "e", "c", "h", "n", "i", "c", "a", "l", " ", "s", "e", "r", "v", "i", "c", "e", " ", "h", "a", "s", " ", "b", "e", "e", "n", " ", "r", "e", "s", "t", "a", "r", "t", "e", "d", " ", "f", "o", "r", " ">>
DOT == <<".">>

---------------------------------------------------------------------------
(* str.strip() and str.lower() on ASCII text *)

UpperChars == <<"A", "B", "C", "D", "E", "F", "G", "H", "I", "J", "K", "L", "M", "N", "O", "P", "Q", "R", "S", "T", "U", "V", "W", "X", "Y", "Z">>
LowerChars == <<"a", "b", "c", "d", "e", "f", "g", "h", "i", "j", "k", "l", "m", "n", "o", "p", "q", "r", "s", "t", "u", "v", "w", "x", "y", "z">>
Whitespace == {" ", "\t"}

LowerChar(c) ==
    IF \E i \in 1..26 : UpperChars[i] = c
    THEN LowerChars[CHOOSE i \in 1..26 : UpperChars[i] = c]
    ELSE c

UpperChar(c) ==
    IF \E i \in 1..26 : LowerChars[i] = c
    THEN UpperChars[CHOOSE i \in 1..26 : LowerChars[i] = c]
    ELSE c

lower(s) == [i \in 1..Len(s) |-> LowerChar(s[i])]

strip(s) ==
    LET keep == {i \in 1..Len(s) : s[i] \notin Whitespace}
    IN  IF keep = {}
        THEN <<>>
        ELSE SubSeq(s, CHOOSE i \in keep : \A j \in keep : i <= j,
                       CHOOSE i \in keep : \A j \in keep : j <= i)

---------------------------------------------------------------------------
(* class user_info and the function tools *)

user_info(name, premium, issue) ==
    [name |-> name, is_premium |-> premium, issue_type |-> issue]

\* user_data before the first context is built
NoContext == [unbound |-> TRUE]

ToolNames == {"refund", "check_issue_type", "restart_service"}

\* refund offered only to premium users with a refund issue
refund_is_enabled_premium(ctx) == ctx.issue_type = REFUND /\ ctx.is_premium

\* refund offered for any issue type that starts with "refund"
refund_is_enabled_prefix(ctx) ==
    Len(ctx.issue_type) >= Len(REFUND)
    /\ SubSeq(ctx.issue_type, 1, Len(REFUND)) = REFUND

refund_is_enabled(ctx) == ctx.issue_type = REFUND

\* refund with the two branches swapped
refund_swapped(ctx) ==
    IF ~ctx.is_premium
    THEN REFUND_OK \o ctx.name \o DOT
    ELSE ctx.name \o REFUND_NO

refund(ctx) ==
    IF ctx.is_premium
    THEN REFUND_OK \o ctx.name \o DOT
    ELSE ctx.name \o REFUND_NO

\* check_issue_type offered only when an issue type was given
check_issue_type_is_enabled_nonempty(ctx) ==
    ~ctx.is_premium /\ ctx.issue_type # <<>>

check_issue_type_is_enabled(ctx) == ~ctx.is_premium

check_issue_type(ctx) == ctx.issue_type

\* restart_service comparing the issue type normalised
restart_service_is_enabled_lenient(ctx) ==
    lower(strip(ctx.issue_type)) = TECHNICAL

restart_service_is_enabled(ctx) == ctx.issue_type = TECHNICAL

restart_service(ctx) == RESTARTED \o ctx.name \o DOT

is_enabled(t, ctx) ==
    CASE t = "refund" -> refund_is_enabled(ctx)
      [] t = "check_issue_type" -> check_issue_type_is_enabled(ctx)
      [] t = "restart_service" -> restart_service_is_enabled(ctx)

invoke(t, ctx) ==
    CASE t = "refund" -> refund(ctx)
      [] t = "check_issue_type" -> check_issue_type(ctx)
      [] t = "restart_service" -> restart_service(ctx)

\* the record kept of a predicate evaluation, of a tool call, of neither
NoCall == [fn |-> "none", kind |-> "none", enabled |-> FALSE, result |-> <<>>]
PredicateCall(t, ctx) ==
    [fn |-> t, kind |-> "is_enabled", enabled |-> is_enabled(t, ctx), result |-> <<>>]
ToolCall(t, ctx) ==
    [fn |-> t, kind |-> "tool", enabled |-> FALSE, result |-> invoke(t, ctx)]

---------------------------------------------------------------------------
(* Module level: load_dotenv(), os.getenv() and the API-key check *)

Unset == [set |-> FALSE, val |-> <<>>]
Value(v) == [set |-> TRUE, val |-> v]
API_KEY == <<"s", "k">>

\* load_dotenv() with override=False: a variable already in os.environ is
\* kept, even when empty; otherwise the .env entry, when it has a value, is set
load_dotenv(env, file) ==
    IF env.set THEN env ELSE IF file.set THEN file ELSE env

\* "openai_api_key is None": the empty string passes
not_key_none_only(k) == ~k.set

\* "not openai_api_key": None or the empty string
not_key(k) == ~k.set \/ k.val = <<>>

LoadApiKey ==
    /\ pc = "start"
    /\ environ' = load_dotenv(environ, dotenv_file)
    /\ openai_api_key' = environ'
    /\ pc' = IF not_key(openai_api_key') THEN "config_error" ELSE "main"
    /\ UNCHANGED <<start_env, dotenv_file, agents, prompt, line, user_input,
                   issue_type, premium_input, is_premium, user_data, built,
                   runs, inflight, stream, current_agent, call, event>>

---------------------------------------------------------------------------
(* main(): the agents *)

AgentNames ==
    {"technical_agent", "billing_agent", "refund_agent", "customer_support_agent"}

AgentDefs ==
    [a \in AgentNames |->
        CASE a = "technical_agent" ->
                [tools |-> {"restart_service"}, handoffs |-> {}]
          [] a = "billing_agent" ->
                [tools |-> {}, handoffs |-> {}]
          [] a = "refund_agent" ->
                [tools |-> {"refund"}, handoffs |-> {}]
          [] a = "customer_support_agent" ->
                [tools |-> {"check_issue_type"},
                 handoffs |-> {"technical_agent", "billing_agent", "refund_agent"}]]

NoAgents == [a \in {} |-> [tools |-> {}, handoffs |-> {}]]

MainSetup ==
    /\ pc = "main"
    /\ agents' = AgentDefs
    /\ pc' = "input"
    /\ UNCHANGED <<start_env, dotenv_file, environ, openai_api_key, prompt,
                   line, user_input, issue_type, premium_input, is_premium,
                   user_data, built, runs, inflight, stream, current_agent,
                   call, event>>

---------------------------------------------------------------------------
(* main(): the session loop *)

\* the exit test without lower()
IsExitCommand_cased(s) == strip(s) \in {EXIT, QUIT}

IsExitCommand(s) == lower(strip(s)) \in {EXIT, QUIT}

\* the premium test without "y"
ParsePremium_yes_only(s) == lower(strip(s)) = YES

ParsePremium(s) == lower(strip(s)) \in {YES, Y}

ReadUserInput(s) ==
    /\ pc = "input"
    /\ prompt' = "User Input"
    /\ line' = s
    /\ user_input' = s
    /\ built' = 0
    /\ runs' = 0
    /\ pc' = IF IsExitCommand(s) THEN "done" ELSE "issue"
    /\ UNCHANGED <<start_env, dotenv_file, environ, openai_api_key, agents,
                   issue_type, premium_input, is_premium, user_data, inflight,
                   stream, current_agent, call, event>>

ReadIssueType(s) ==
    /\ pc = "issue"
    /\ prompt' = "issue type"
    /\ line' = s
    /\ issue_type' = lower(strip(s))
    /\ pc' = "premium"
    /\ UNCHANGED <<start_env, dotenv_file, environ, openai_api_key, agents,
                   user_input, premium_input, is_premium, user_data, built,
                   runs, inflight, stream, current_agent, call, event>>

ReadPremium(s) ==
    /\ pc = "premium"
    /\ prompt' = "premium user"
    /\ line' = s
    /\ premium_input' = lower(strip(s))
    /\ is_premium' = ParsePremium(s)
    /\ pc' = "build"
    /\ UNCHANGED <<start_env, dotenv_file, environ, openai_api_key, agents,
                   user_input, issue_type, user_data, built, runs, inflight,
                   stream, current_agent, call, event>>

\* a context that keeps the premium flag of the context before it
BuildContext_sticky ==
    /\ pc = "build"
    /\ user_data' =
          user_info(AREEBA,
                    is_premium \/ (user_data # NoContext /\ user_data.is_premium),
                    issue_type)
    /\ built' = built + 1
    /\ pc' = "run"
    /\ UNCHANGED <<start_env, dotenv_file, environ, openai_api_key, agents,
                   prompt, line, user_input, issue_type, premium_input,
                   is_premium, runs, inflight, stream, current_agent, call,
                   event>>

BuildContext ==
    /\ pc = "build"
    /\ user_data' = user_info(AREEBA, is_premium, issue_type)
    /\ built' = built + 1
    /\ pc' = "run"
    /\ UNCHANGED <<start_env, dotenv_file, environ, openai_api_key, agents,
                   prompt, line, user_input, issue_type, premium_input,
                   is_premium, runs, inflight, stream, current_agent, call,
                   event>>

NoEvent == [n |-> 0, name |-> FALSE, delta |-> FALSE]

\* a run that is started and whose stream is never consumed
RunStreamed_detached ==
    /\ pc = "run"
    /\ runs' = runs + 1
    /\ inflight' = inflight + 1
    /\ stream' = "open"
    /\ current_agent' = "customer_support_agent"
    /\ call' = NoCall
    /\ event' = NoEvent
    /\ pc' = "input"
    /\ UNCHANGED <<start_env, dotenv_file, environ, openai_api_key, agents,
                   prompt, line, user_input, issue_type, premium_input,
                   is_premium, user_data, built>>

\* Runner.run_streamed(support_agent, ...) and print(result.final_output)
RunStreamed ==
    /\ pc = "run"
    /\ runs' = runs + 1
    /\ inflight' = inflight + 1
    /\ stream' = "open"
    /\ current_agent' = "customer_support_agent"
    /\ call' = NoCall
    /\ event' = NoEvent
    /\ pc' = "stream"
    /\ UNCHANGED <<start_env, dotenv_file, environ, openai_api_key, agents,
                   prompt, line, user_input, issue_type, premium_input,
                   is_premium, user_data, built>>

\* the runtime evaluates the is_enabled predicate of a tool of the current agent
RuntimeIsEnabled(t) ==
    /\ pc = "stream"
    /\ stream = "open"
    /\ t \in agents[current_agent].tools
    /\ call' = PredicateCall(t, user_data)
    /\ UNCHANGED <<start_env, dotenv_file, environ, openai_api_key, agents, pc,
                   prompt, line, user_input, issue_type, premium_input,
                   is_premium, user_data, built, runs, inflight, stream,
                   current_agent, event>>

\* the model selects a tool the current agent offers and that is enabled
RuntimeCallTool(t) ==
    /\ pc = "stream"
    /\ stream = "open"
    /\ t \in agents[current_agent].tools
    /\ is_enabled(t, user_data)
    /\ call' = ToolCall(t, user_data)
    /\ UNCHANGED <<start_env, dotenv_file, environ, openai_api_key, agents, pc,
                   prompt, line, user_input, issue_type, premium_input,
                   is_premium, user_data, built, runs, inflight, stream,
                   current_agent, event>>

\* the model hands the conversation off to one of the current agent's handoffs
RuntimeHandoff(a) ==
    /\ pc = "stream"
    /\ stream = "open"
    /\ a \in agents[current_agent].handoffs
    /\ current_agent' = a
    /\ UNCHANGED <<start_env, dotenv_file, environ, openai_api_key, agents, pc,
                   prompt, line, user_input, issue_type, premium_input,
                   is_premium, user_data, built, runs, inflight, stream,
                   call, event>>

\* one iteration of "async for event in result.stream()"
StreamEvent(has_name, has_delta) ==
    /\ pc = "stream"
    /\ stream = "open"
    /\ event.n < MaxEvents
    /\ event' = [n |-> event.n + 1, name |-> has_name, delta |-> has_delta]
    /\ UNCHANGED <<start_env, dotenv_file, environ, openai_api_key, agents, pc,
                   prompt, line, user_input, issue_type, premium_input,
                   is_premium, user_data, built, runs, inflight, stream,
                   current_agent, call>>

\* the stream is exhausted: the async for ends and the while loop starts over
StreamEnd ==
    /\ pc = "stream"
    /\ stream = "open"
    /\ stream' = "exhausted"
    /\ inflight' = inflight - 1
    /\ current_agent' = "none"
    /\ call' = NoCall
    /\ event' = NoEvent
    /\ pc' = "input"
    /\ UNCHANGED <<start_env, dotenv_file, environ, openai_api_key, agents,
                   prompt, line, user_input, issue_type, premium_input,
                   is_premium, user_data, built, runs>>

\* input() raises EOFError, which main() does not catch
InputEOF ==
    /\ pc \in {"input", "issue", "premium"}
    /\ prompt' = CASE pc = "input" -> "User Input"
                   [] pc = "issue" -> "issue type"
                   [] pc = "premium" -> "premium user"
    /\ pc' = "crashed"
    /\ UNCHANGED <<start_env, dotenv_file, environ, openai_api_key, agents,
                   line, user_input, issue_type, premium_input, is_premium,
                   user_data, built, runs, inflight, stream, current_agent,
                   call, event>>

\* the runtime raises while the stream is consumed; main() does not catch it
StreamRaises ==
    /\ pc = "stream"
    /\ stream = "open"
    /\ pc' = "crashed"
    /\ UNCHANGED <<start_env, dotenv_file, environ, openai_api_key, agents,
                   prompt, line, user_input, issue_type, premium_input,
                   is_premium, user_data, built, runs, inflight, stream,
                   current_agent, call, event>>

---------------------------------------------------------------------------
(* Lines typed at the prompts *)

CaseVariants(w) ==
    {[i \in 1..Len(w) |-> IF i \in U THEN UpperChar(w[i]) ELSE w[i]] :
        U \in SUBSET (1..Len(w))}

Blanks(n) == [i \in 1..n |-> " "]

Padded(S) ==
    {Blanks(l) \o w \o Blanks(r) : w \in S, l \in 0..MaxPad, r \in 0..MaxPad}

Strs(A, n) == UNION {[1..k -> A] : k \in 0..n}

UserInputs ==
    Padded(CaseVariants(EXIT) \cup CaseVariants(QUIT))
    \cup {<<"h", "e", "l", "l", "o">>, <<>>, EXIT \o <<"s">>,
          <<"q", "u", " ", "i", "t">>}

IssueAnswers ==
    {REFUND, <<"T">> \o Tail(TECHNICAL), <<" ">> \o BILLING, REFUND \o <<"s">>,
     <<"o", "t", "h", "e", "r">>, <<>>}

PremiumAnswers ==
    {YES, <<"Y">>, <<" ", "y", " ">>, <<"n", "o">>, <<>>}

EnvValues == {Unset, Value(<<>>), Value(API_KEY)}

---------------------------------------------------------------------------
(* The process *)

Init ==
    /\ start_env \in EnvValues
    /\ dotenv_file \in EnvValues
    /\ environ = start_env
    /\ openai_api_key = Unset
    /\ agents = NoAgents
    /\ pc = "start"
    /\ prompt = "none"
    /\ line = <<>>
    /\ user_input = <<>>
    /\ issue_type = <<>>
    /\ premium_input = <<>>
    /\ is_premium = FALSE
    /\ user_data = NoContext
    /\ built = 0
    /\ runs = 0
    /\ inflight = 0
    /\ stream = "idle"
    /\ current_agent = "none"
    /\ call = NoCall
    /\ event = NoEvent

Next ==
    \/ LoadApiKey
    \/ MainSetup
    \/ \E s \in UserInputs : ReadUserInput(s)
    \/ \E s \in IssueAnswers : ReadIssueType(s)
    \/ \E s \in PremiumAnswers : ReadPremium(s)
    \/ BuildContext
    \/ RunStreamed
    \/ \E t \in ToolNames : RuntimeIsEnabled(t)
    \/ \E t \in ToolNames : RuntimeCallTool(t)
    \/ \E a \in AgentNames : RuntimeHandoff(a)
    \/ \E n \in BOOLEAN, d \in BOOLEAN : StreamEvent(n, d)
    \/ StreamEnd
    \/ InputEOF
    \/ StreamRaises

Spec == Init /\ [][Next]_vars

---------------------------------------------------------------------------
(* The predicates and the tools on every context *)

NameChars == {"A", "b"}
IssueChars == {"r", "e"}
IssueWords == {TECHNICAL, BILLING, REFUND}

Names == {AREEBA} \cup Strs(NameChars, MaxNameLen)

\* the three words, their near misses, and short garbled text
IssueTypes ==
    IssueWords
    \cup Padded(IssueWords)
    \cup {<<UpperChar(Head(w))>> \o Tail(w) : w \in IssueWords}
    \cup {SubSeq(w, 1, Len(w) - 1) : w \in IssueWords}
    \cup {w \o <<"s">> : w \in IssueWords}
    \cup Strs(IssueChars, MaxIssueLen)

Contexts ==
    {user_info(n, p, i) : n \in Names, p \in BOOLEAN, i \in IssueTypes}

\* a predicate is evaluated on the context
EvaluateIsEnabled(t) ==
    /\ pc = "stream"
    /\ call' = PredicateCall(t, user_data)
    /\ UNCHANGED <<start_env, dotenv_file, environ, openai_api_key, agents, pc,
                   prompt, line, user_input, issue_type, premium_input,
                   is_premium, user_data, built, runs, inflight, stream,
                   current_agent, event>>

\* a tool function is called with the context
InvokeTool(t) ==
    /\ pc = "stream"
    /\ call' = ToolCall(t, user_data)
    /\ UNCHANGED <<start_env, dotenv_file, environ, openai_api_key, agents, pc,
                   prompt, line, user_input, issue_type, premium_input,
                   is_premium, user_data, built, runs, inflight, stream,
                   current_agent, event>>

InitTools ==
    /\ start_env = Value(API_KEY)
    /\ dotenv_file = Unset
    /\ environ = start_env
    /\ openai_api_key = start_env
    /\ agents = AgentDefs
    /\ pc = "stream"
    /\ prompt = "none"
    /\ line = <<>>
    /\ user_input = <<>>
    /\ issue_type = <<>>
    /\ premium_input = <<>>
    /\ is_premium = FALSE
    /\ user_data \in Contexts
    /\ built = 1
    /\ runs = 1
    /\ inflight = 1
    /\ stream = "open"
    /\ current_agent = "customer_support_agent"
    /\ call = NoCall
    /\ event = NoEvent

NextTools ==
    \/ \E t \in ToolNames : EvaluateIsEnabled(t)
    \/ \E t \in ToolNames : InvokeTool(t)

SpecTools == InitTools /\ [][NextTools]_vars

Evaluated(t) == call.kind = "is_enabled" /\ call.fn = t
Invoked(t) == call.kind = "tool" /\ call.fn = t

\* two texts are the same string, character by character
SameText(a, b) == Len(a) = Len(b) /\ \A i \in 1..Len(a) : a[i] = b[i]

\* C1: the refund predicate is true exactly when issue_type is the string
\* "refund", whatever is_premium and name are
C1_RefundEnabledIffRefund ==
    Evaluated("refund") =>
        (call.enabled <=> SameText(user_data.issue_type, REFUND))

C1_Witness ==
    /\ Evaluated("refund")
    /\ call.enabled
    /\ ~user_data.is_premium
    /\ user_data.name # AREEBA

\* C2: the check_issue_type predicate is true exactly when is_premium is
\* false, whatever issue_type is
C2_CheckIssueTypeEnabledIffNotPremium ==
    Evaluated("check_issue_type") =>
        (call.enabled <=> user_data.is_premium = FALSE)

C2_Witness ==
    /\ Evaluated("check_issue_type")
    /\ call.enabled
    /\ user_data.issue_type = <<"r", "e">>

\* C3: the restart_service predicate is true exactly when issue_type is the
\* string "technical", whatever is_premium and name are
C3_RestartEnabledIffTechnical ==
    Evaluated("restart_service") =>
        (call.enabled <=> SameText(user_data.issue_type, TECHNICAL))

C3_Witness ==
    /\ Evaluated("restart_service")
    /\ call.enabled
    /\ user_data.is_premium
    /\ user_data.name = <<"b">>

\* C4: refund returns "Refund processed successfully for <name>." for a
\* premium context and "<name>, you need a premium subscription to request a
\* refund." for any other, whatever issue_type is
C4_RefundMessage ==
    Invoked("refund") =>
        /\ user_data.is_premium =>
              SameText(call.result, REFUND_OK \o user_data.name \o DOT)
        /\ ~user_data.is_premium =>
              SameText(call.result, user_data.name \o REFUND_NO)

C4_Witness ==
    /\ Invoked("refund")
    /\ user_data.is_premium
    /\ user_data.issue_type = BILLING
    /\ call.result = REFUND_OK \o AREEBA \o DOT

Garbled(i) == i \notin IssueWords

\* C8 as claimed: for a missing or garbled issue_type each of the three
\* predicates yields disabled
C8_AllDisabledWhenGarbled ==
    (call.kind = "is_enabled" /\ Garbled(user_data.issue_type)) =>
        ~call.enabled

\* C8 as amended: for a missing or garbled issue_type the refund and
\* restart_service predicates yield disabled, and the check_issue_type
\* predicate yields enabled exactly when is_premium is false
C8_GarbledIssueType ==
    (call.kind = "is_enabled" /\ Garbled(user_data.issue_type)) =>
        /\ call.fn \in {"refund", "restart_service"} => ~call.enabled
        /\ call.fn = "check_issue_type" =>
              (call.enabled <=> ~user_data.is_premium)

C8_Witness ==
    /\ Evaluated("refund")
    /\ user_data.issue_type = REFUND \o <<"s">>
    /\ ~user_data.is_premium
    /\ ~call.enabled

---------------------------------------------------------------------------
(* The premium prompt on every short answer *)

AnswerChars == {"y", "Y", "e", "E", "s", "S", " ", "n"}

AnswerLines == Strs(AnswerChars, MaxAnsLen)

\* the first turn, at the premium prompt
InitPremium ==
    /\ start_env = Value(API_KEY)
    /\ dotenv_file = Unset
    /\ environ = start_env
    /\ openai_api_key = start_env
    /\ agents = AgentDefs
    /\ pc = "premium"
    /\ prompt = "issue type"
    /\ line \in IssueAnswers
    /\ user_input = <<"h", "e", "l", "l", "o">>
    /\ issue_type = lower(strip(line))
    /\ premium_input = <<>>
    /\ is_premium = FALSE
    /\ user_data = NoContext
    /\ built = 0
    /\ runs = 0
    /\ inflight = 0
    /\ stream = "idle"
    /\ current_agent = "none"
    /\ call = NoCall
    /\ event = NoEvent

NextPremium ==
    \/ \E s \in AnswerLines : ReadPremium(s)
    \/ BuildContext

SpecPremium == InitPremium /\ [][NextPremium]_vars

\* text s is word w in some letter case
AnyCase(s, w) ==
    Len(s) = Len(w) /\ \A i \in 1..Len(w) : s[i] \in {w[i], UpperChar(w[i])}

\* text s is word w in some letter case between runs of whitespace
AnyCaseInBlanks(s, w) ==
    \E i \in 0..Len(s) :
        /\ i + Len(w) <= Len(s)
        /\ AnyCase(SubSeq(s, i + 1, i + Len(w)), w)
        /\ \A k \in 1..Len(s) :
              (k <= i \/ k > i + Len(w)) => s[k] \in Whitespace

\* C6 as claimed: is_premium of the context is true when the answer is yes or
\* y in any letter case, and false for anything else
C6_PremiumIffYesOrY ==
    (pc = "run" /\ prompt = "premium user") =>
        (user_data.is_premium <=> (AnyCase(line, YES) \/ AnyCase(line, Y)))

\* C6 as amended: is_premium of the context is true when the answer, leading
\* and trailing whitespace aside, is yes or y in any letter case, and false
\* for anything else
C6_PremiumIffYesOrYStripped ==
    (pc = "run" /\ prompt = "premium user") =>
        (user_data.is_premium <=>
            (AnyCaseInBlanks(line, YES) \/ AnyCaseInBlanks(line, Y)))

C6_Witness ==
    /\ pc = "run"
    /\ line = <<"y", "E", "s">>
    /\ user_data.is_premium

---------------------------------------------------------------------------
(* The session *)

\* C5: once exit or quit, in any letter case, is entered at the "User Input"
\* prompt the loop is over: no further prompt, context or run
C5_ExitEndsSession ==
    /\ []((AnyCase(user_input, EXIT) \/ AnyCase(user_input, QUIT)) => pc = "done")
    /\ [][pc = "done" =>
            /\ pc' = "done"
            /\ prompt' = prompt
            /\ user_data' = user_data
            /\ built' = built
            /\ runs' = runs
            /\ inflight' = inflight]_vars

C5_Witness ==
    /\ pc = "done"
    /\ user_input = <<"Q", "u", "I", "t">>
    /\ user_data # NoContext
    /\ prompt = "User Input"
    /\ runs = 0

NotStarted ==
    /\ pc \in {"start", "config_error"}
    /\ prompt = "none"
    /\ agents = NoAgents
    /\ user_data = NoContext
    /\ runs = 0
    /\ inflight = 0
    /\ stream = "idle"

\* C7 as claimed: with OPENAI_API_KEY unset or empty in the environment the
\* process is started with, the process never gets past the configuration
\* error: no prompt, no agent, no run
C7_NoKeyAtStartFails ==
    (~start_env.set \/ start_env.val = <<>>) => NotStarted

\* C7 as amended: with OPENAI_API_KEY empty in the environment the process is
\* started with, or unset there and given no non-empty value by the .env
\* file, the process never gets past the configuration error
C7_NoKeyAfterDotenvFails ==
    (\/ start_env.set /\ start_env.val = <<>>
     \/ ~start_env.set /\ (~dotenv_file.set \/ dotenv_file.val = <<>>))
        => NotStarted

C7_Witness ==
    /\ pc = "config_error"
    /\ start_env = Value(<<>>)
    /\ dotenv_file = Value(API_KEY)

\* C9: a turn that does not exit builds exactly one context, from the turn's
\* issue-type and premium answers only; nothing but that construction, no
\* predicate evaluation and no tool call, ever changes the context
C9_OneContextPerTurn ==
    /\ [](/\ pc \in {"issue", "premium", "build"} => built = 0
          /\ pc \in {"run", "stream"} => built = 1)
    /\ [][/\ (pc = "stream" /\ pc' = "input") => built' = 1
          /\ user_data' # user_data =>
                /\ pc = "build"
                /\ user_data' =
                      user_info(AREEBA, premium_input \in {YES, Y}, issue_type)]_vars

C9_Witness ==
    /\ pc = "stream"
    /\ Invoked("refund")
    /\ built = 1
    /\ user_data = user_info(AREEBA, FALSE, REFUND)
    /\ premium_input = <<"n", "o">>

Order ==
    {<<"start", "main">>, <<"start", "config_error">>, <<"main", "input">>,
     <<"input", "issue">>, <<"input", "done">>, <<"issue", "premium">>,
     <<"premium", "build">>, <<"build", "run">>, <<"run", "stream">>,
     <<"stream", "input">>,
     <<"input", "crashed">>, <<"issue", "crashed">>, <<"premium", "crashed">>,
     <<"stream", "crashed">>}

\* C10: at most one run is in flight; a turn goes user input, issue type,
\* premium answer, context, one run, the run's events one after the other;
\* the next turn's prompt comes only once the run's stream is exhausted
C10_OneRunInFlight ==
    /\ [](/\ inflight <= 1
          /\ pc = "stream" => (runs = 1 /\ inflight = 1 /\ stream = "open")
          /\ pc \in {"input", "issue", "premium", "build", "run", "done"} =>
                (inflight = 0 /\ stream \in {"idle", "exhausted"}))
    /\ [][/\ pc' # pc => <<pc, pc'>> \in Order
          /\ (pc = "stream" /\ pc' = "input") => stream' = "exhausted"
          /\ pc = "stream" => prompt' = prompt
          /\ (pc = "stream" /\ event' # event /\ pc' = "stream") =>
                event'.n = event.n + 1]_vars

C10_Witness ==
    /\ pc = "issue"
    /\ stream = "exhausted"
    /\ user_data # NoContext
    /\ inflight = 0

====
